---- MODULE Spec2Model ----
(***************************************************************************)
(* Model of src/index.js: the AppConfig singleton, UserFactory,            *)
(* PaymentFactory, OrderBuilder, clone() and the click handlers that wire  *)
(* them to the page.                                                       *)
(*                                                                         *)
(* Objects live in heaps (id -> fields) so that identity and aliasing are  *)
(* part of the state: an Order holds the id of its toppings Array, and a   *)
(* variable of the program holds the id of the object it refers to.        *)
(***************************************************************************)
EXTENDS Integers, Sequences, FiniteSets, TLC

VARIABLES
  orders,        \* heap of order objects: id -> [size, toppings, notes, price]
  arrays,        \* heap of Array objects: id -> sequence of elements
  sizeCalls,     \* history: order id -> number of setSize calls it received
  builderOrder,  \* OrderBuilder.order of the one builder
  lastBuiltOrder, \* the variable that keeps what build() returned
  lastClone,     \* the variable that keeps what clone() returned
  configs,       \* heap of AppConfig objects: id -> [currency, tax, discount]
  AppConfig_instance,  \* the static AppConfig._instance
  refs,          \* the references getInstance() and new AppConfig() returned
  cfg,           \* the page's const cfg
  currencyDisplay,     \* innerText of #currencyDisplay
  log,           \* the line on top of each log element
  usersDiv,      \* the card on top of #users
  last           \* the call (or click) made last, with its outcome

builderVars == <<orders, arrays, sizeCalls, builderOrder, lastBuiltOrder, lastClone>>
configVars == <<configs, AppConfig_instance, refs>>
pageVars == <<cfg, currencyDisplay, log, usersDiv>>
vars == <<builderVars, configVars, pageVars, last>>

(***************************************************************************)
(* Bounds of the model                                                     *)
(***************************************************************************)
MaxToppings == 2   \* most array elements alive in the heap
MaxSetSize == 2    \* most setSize calls recorded on the orders alive

(***************************************************************************)
(* JavaScript values                                                       *)
(***************************************************************************)
JSnull == "<null>"      \* the value null (no input string equals it)
NoRef == 0              \* a variable that holds null / undefined

\* The smallest id not in use: what `new` / a literal allocates.
FreshId(used) ==
  CHOOSE i \in 1..(Cardinality(used) + 1) :
    i \notin used /\ \A j \in 1..(i - 1) : j \in used

\* The one element of a singleton set.  Only({F(x) : x \in {e}}) is F(e)
\* with e evaluated once, however often F uses x.
Only(S) == CHOOSE x \in S : TRUE

\* The three heap components travel together through the operators.
Heap(os, as, cs) == [orders |-> os, arrays |-> as, calls |-> cs]

TheHeap == Heap(orders, arrays, sizeCalls)

(***************************************************************************)
(* The page elements written to.  A log keeps every line, newest on top;   *)
(* nothing reads the lines below, so the model keeps the top line.         *)
(***************************************************************************)
LogElements == {"singletonLog", "paymentLog", "orderPreview", "prototypeLog"}
NoLine == [msg |-> ""]

\* Before the script has run: no AppConfig exists and nothing is shown.
NothingLoaded ==
  /\ configs = <<>>
  /\ AppConfig_instance = NoRef
  /\ refs = <<>>
  /\ cfg = NoRef
  /\ currencyDisplay = ""
  /\ log = [el \in LogElements |-> NoLine]
  /\ usersDiv = NoLine

(***************************************************************************)
(* Builder: Order, OrderBuilder                                            *)
(***************************************************************************)
ExtraLarge == "Extra Large"
Large == "Large"
Medium == "Medium"
Sizes == {Medium, Large, ExtraLarge, "ExtraLarge"}
Toppings == {"Olives", "Cheese"}
Notes == {"no onion"}

ExtraLargePrice == 300
LargePrice == 200
DefaultPrice == 120
ToppingPrice == 30

\* new Order()
Order(H) ==
  Only({
    [heap |-> Heap(
        [i \in DOMAIN H.orders \cup {o} |->
           IF i = o THEN [size |-> JSnull, toppings |-> a, notes |-> "", price |-> 0]
           ELSE H.orders[i]],
        [i \in DOMAIN H.arrays \cup {a} |-> IF i = a THEN <<>> ELSE H.arrays[i]],
        [i \in DOMAIN H.calls \cup {o} |-> IF i = o THEN 0 ELSE H.calls[i]]),
     ref |-> o] :
    o \in {FreshId(DOMAIN H.orders)}, a \in {FreshId(DOMAIN H.arrays)}})

\* reset() { this.order = new Order(); return this; }
OrderBuilder_reset(H) ==
  Only({[heap |-> n.heap, order |-> n.ref] : n \in {Order(H)}})

\* The size prices with the two named sizes exchanged.
SizePrice_Swapped(size) ==
  IF size = ExtraLarge THEN LargePrice
  ELSE IF size = Large THEN ExtraLargePrice
  ELSE DefaultPrice

\* size === 'Extra Large' ? 300 : size === 'Large' ? 200 : 120
SizePrice(size) ==
  IF size = ExtraLarge THEN ExtraLargePrice
  ELSE IF size = Large THEN LargePrice
  ELSE DefaultPrice

\* setSize(size): this.order.size = size; this.order.price += ...
OrderBuilder_setSize(H, o, size) ==
  Heap([H.orders EXCEPT ![o].size = size, ![o].price = @ + SizePrice(size)],
       H.arrays,
       [H.calls EXCEPT ![o] = @ + 1])

\* addTopping that pushes the topping and forgets the price.
OrderBuilder_addTopping_NoPrice(H, o, t) ==
  Heap(H.orders,
       [H.arrays EXCEPT ![H.orders[o].toppings] = Append(@, t)],
       H.calls)

\* addTopping(t): this.order.toppings.push(t); this.order.price += 30
OrderBuilder_addTopping(H, o, t) ==
  Heap([H.orders EXCEPT ![o].price = @ + ToppingPrice],
       [H.arrays EXCEPT ![H.orders[o].toppings] = Append(@, t)],
       H.calls)

\* setNotes(n): this.order.notes = n
OrderBuilder_setNotes(H, o, n) ==
  Heap([H.orders EXCEPT ![o].notes = n], H.arrays, H.calls)

(***************************************************************************)
(* JSON.stringify / JSON.parse.  The text is modelled by the document it   *)
(* denotes: the members of the object in property order, each value a      *)
(* JSON value that holds no reference into the heap.                       *)
(***************************************************************************)
JSONString(s) == [t |-> "string", s |-> s]
JSONNull == [t |-> "null"]
JSONNumber(n) == [t |-> "number", n |-> n]
JSONArray(es) == [t |-> "array", es |-> es]

JSON_stringify(H, o) ==
  LET r == H.orders[o]
      elems == H.arrays[r.toppings]
  IN << <<"size", IF r.size = JSnull THEN JSONNull ELSE JSONString(r.size)>>,
        <<"toppings", JSONArray([i \in 1..Len(elems) |-> JSONString(elems[i])])>>,
        <<"notes", JSONString(r.notes)>>,
        <<"price", JSONNumber(r.price)>> >>

Member(text, key) ==
  LET i == CHOOSE j \in 1..Len(text) : text[j][1] = key IN text[i][2]

\* JSON.parse builds a fresh object and a fresh array from the text.
JSON_parse(H, text, cs) ==
  Only({
    [heap |-> Heap(
        [i \in DOMAIN H.orders \cup {o} |->
           IF i = o
           THEN [size |-> IF sz.t = "null" THEN JSnull ELSE sz.s,
                 toppings |-> a,
                 notes |-> Member(text, "notes").s,
                 price |-> Member(text, "price").n]
           ELSE H.orders[i]],
        [i \in DOMAIN H.arrays \cup {a} |->
           IF i = a THEN [k \in 1..Len(tp.es) |-> tp.es[k].s] ELSE H.arrays[i]],
        [i \in DOMAIN H.calls \cup {o} |-> IF i = o THEN cs ELSE H.calls[i]]),
     ref |-> o] :
    o \in {FreshId(DOMAIN H.orders)}, a \in {FreshId(DOMAIN H.arrays)},
    sz \in {Member(text, "size")}, tp \in {Member(text, "toppings")}})

\* JSON.parse(JSON.stringify(obj))
JSON_roundTrip(H, o) ==
  Only({JSON_parse(H, text, H.calls[o]) : text \in {JSON_stringify(H, o)}})

\* build() returning the working order itself, without copy or reset.
OrderBuilder_build_NoCopy(H, o) ==
  [heap |-> H, order |-> o, ret |-> o]

\* build() that copies but forgets this.reset().
OrderBuilder_build_NoReset(H, o) ==
  Only({[heap |-> finished.heap, order |-> o, ret |-> finished.ref] :
          finished \in {JSON_roundTrip(H, o)}})

\* build(): finished = JSON.parse(JSON.stringify(this.order)); this.reset();
\* return finished
OrderBuilder_build(H, o) ==
  Only({Only({[heap |-> r.heap, order |-> r.order, ret |-> finished.ref] :
                r \in {OrderBuilder_reset(finished.heap)}}) :
          finished \in {JSON_roundTrip(H, o)}})

(***************************************************************************)
(* Prototype: clone                                                        *)
(***************************************************************************)
\* structuredClone(obj): a structural copy into fresh objects.
structuredClone(H, o) ==
  Only({
    [heap |-> Heap(
        [i \in DOMAIN H.orders \cup {n} |->
           IF i = n THEN [H.orders[o] EXCEPT !.toppings = a] ELSE H.orders[i]],
        [i \in DOMAIN H.arrays \cup {a} |->
           IF i = a THEN H.arrays[H.orders[o].toppings] ELSE H.arrays[i]],
        [i \in DOMAIN H.calls \cup {n} |-> IF i = n THEN H.calls[o] ELSE H.calls[i]]),
     ref |-> n] :
    n \in {FreshId(DOMAIN H.orders)}, a \in {FreshId(DOMAIN H.arrays)}})

\* A copy of the record only: the toppings array is shared ({...obj}).
clone_Shallow(H, o, hasStructuredClone) ==
  Only({
    [heap |-> Heap(
        [i \in DOMAIN H.orders \cup {n} |-> IF i = n THEN H.orders[o] ELSE H.orders[i]],
        H.arrays,
        [i \in DOMAIN H.calls \cup {n} |-> IF i = n THEN H.calls[o] ELSE H.calls[i]]),
     ref |-> n] :
    n \in {FreshId(DOMAIN H.orders)}})

\* clone(obj): structuredClone when the host has it, the JSON round trip
\* otherwise.
clone(H, o, hasStructuredClone) ==
  IF hasStructuredClone THEN structuredClone(H, o)
  ELSE JSON_roundTrip(H, o)

(***************************************************************************)
(* Garbage and addresses.  Objects no variable reaches are dropped, and    *)
(* the objects left are renumbered by the first variable that reaches      *)
(* them (builder.order, lastBuiltOrder, lastClone): an address carries no  *)
(* meaning beyond which references are equal.                              *)
(***************************************************************************)
\* The index of the first variable of R that holds o.
FirstHolder(R, o) ==
  CHOOSE i \in 1..Len(R) : R[i] = o /\ \A j \in 1..(i - 1) : R[j] # o

\* The index of the first variable of R whose order holds array a.
FirstArrayHolder(H, R, a) ==
  CHOOSE i \in 1..Len(R) :
    /\ R[i] # NoRef /\ H.orders[R[i]].toppings = a
    /\ \A j \in 1..(i - 1) : R[j] = NoRef \/ H.orders[R[j]].toppings # a

Collect(H, R) ==
  Only({
    [heap |-> Heap(
        [n \in {on[o] : o \in DOMAIN on} |->
           [H.orders[R[n]] EXCEPT !.toppings = FirstArrayHolder(H, R, @)]],
        [m \in {FirstArrayHolder(H, R, H.orders[o].toppings) : o \in DOMAIN on} |->
           H.arrays[H.orders[R[m]].toppings]],
        [n \in {on[o] : o \in DOMAIN on} |-> H.calls[R[n]]]),
     refs |-> [i \in 1..Len(R) |-> IF R[i] = NoRef THEN NoRef ELSE on[R[i]]]] :
    on \in {[o \in {R[i] : i \in 1..Len(R)} \ {NoRef} |-> FirstHolder(R, o)]}})

\* The state after a step that leaves heap H and the variables b, l, c.
SetHeap(H, b, l, c) ==
  \E G \in {Collect(H, <<b, l, c>>)} :
     /\ orders' = G.heap.orders
     /\ arrays' = G.heap.arrays
     /\ sizeCalls' = G.heap.calls
     /\ builderOrder' = G.refs[1]
     /\ lastBuiltOrder' = G.refs[2]
     /\ lastClone' = G.refs[3]

\* The state after a step that changes fields of objects only: no object is
\* allocated or dropped and no variable is assigned.
SetFields(H) ==
  /\ orders' = H.orders
  /\ arrays' = H.arrays
  /\ sizeCalls' = H.calls
  /\ UNCHANGED <<builderOrder, lastBuiltOrder, lastClone>>

\* The value of an order, references followed.
Content(H, o) ==
  [size |-> H.orders[o].size,
   toppings |-> H.arrays[H.orders[o].toppings],
   notes |-> H.orders[o].notes,
   price |-> H.orders[o].price]

RECURSIVE SumOver(_, _)
SumOver(f, S) ==
  IF S = {} THEN 0
  ELSE LET x == CHOOSE y \in S : TRUE IN f[x] + SumOver(f, S \ {x})

\* Array elements alive, and setSize calls recorded on the orders alive.
ElementsAlive == SumOver([a \in DOMAIN arrays |-> Len(arrays[a])], DOMAIN arrays)
CallsAlive == SumOver(sizeCalls, DOMAIN sizeCalls)

ExtraCheese == "Extra Cheese"

\* The push without the price line.
PushExtraCheese_NoPrice(H, o) ==
  Heap(H.orders,
       [H.arrays EXCEPT ![H.orders[o].toppings] = Append(@, ExtraCheese)],
       H.calls)

\* o.toppings.push('Extra Cheese'); o.price += 30
PushExtraCheese(H, o) ==
  Heap([H.orders EXCEPT ![o].price = @ + ToppingPrice],
       [H.arrays EXCEPT ![H.orders[o].toppings] = Append(@, ExtraCheese)],
       H.calls)

(***************************************************************************)
(* Spec: a caller drives one OrderBuilder with any calls, keeps what       *)
(* build() returns in lastBuiltOrder, and may change what it was given.    *)
(***************************************************************************)
Init ==
  LET b == OrderBuilder_reset(Heap(<<>>, <<>>, <<>>))   \* new OrderBuilder()
  IN /\ orders = b.heap.orders
     /\ arrays = b.heap.arrays
     /\ sizeCalls = b.heap.calls
     /\ builderOrder = b.order
     /\ lastBuiltOrder = NoRef
     /\ lastClone = NoRef
     /\ last = [op |-> "new OrderBuilder"]
     /\ NothingLoaded

Reset ==
  \E r \in {OrderBuilder_reset(TheHeap)} :
     /\ SetHeap(r.heap, r.order, lastBuiltOrder, lastClone)
     /\ last' = [op |-> "reset"]
     /\ UNCHANGED <<configVars, pageVars>>

SetSize ==
  \E size \in Sizes :
    /\ CallsAlive < MaxSetSize
    /\ SetFields(OrderBuilder_setSize(TheHeap, builderOrder, size))
    /\ last' = [op |-> "setSize", arg |-> size]
    /\ UNCHANGED <<configVars, pageVars>>

AddTopping ==
  \E t \in Toppings :
    /\ ElementsAlive < MaxToppings
    /\ SetFields(OrderBuilder_addTopping(TheHeap, builderOrder, t))
    /\ last' = [op |-> "addTopping", arg |-> t]
    /\ UNCHANGED <<configVars, pageVars>>

SetNotes ==
  \E n \in Notes :
    /\ SetFields(OrderBuilder_setNotes(TheHeap, builderOrder, n))
    /\ last' = [op |-> "setNotes", arg |-> n]
    /\ UNCHANGED <<configVars, pageVars>>

\* lastBuiltOrder = orderBuilder.build()
Build ==
  \E b \in {OrderBuilder_build(TheHeap, builderOrder)} :
     /\ SetHeap(b.heap, b.order, b.ret, lastClone)
     /\ last' = [op |-> "build"]
     /\ UNCHANGED <<configVars, pageVars>>

\* lastBuiltOrder.toppings.push('Extra Cheese'); lastBuiltOrder.price += 30
MutateBuilt ==
  /\ lastBuiltOrder # NoRef
  /\ ElementsAlive < MaxToppings
  /\ SetFields(PushExtraCheese(TheHeap, lastBuiltOrder))
  /\ last' = [op |-> "mutate built"]
  /\ UNCHANGED <<configVars, pageVars>>

Next ==
  \/ Reset
  \/ SetSize
  \/ AddTopping
  \/ SetNotes
  \/ Build
  \/ MutateBuilt

Spec == Init /\ [][Next]_vars

(***************************************************************************)
(* The chain of the buildOrder handler:                                    *)
(*   orderBuilder.reset().setSize(size);                                   *)
(*   toppings.forEach(t => orderBuilder.addTopping(t));                    *)
(*   orderBuilder.setNotes(notes); built = orderBuilder.build()            *)
(***************************************************************************)
RECURSIVE AddToppings(_, _, _)
AddToppings(H, o, ts) ==
  IF ts = <<>> THEN H
  ELSE Only({AddToppings(added, o, Tail(ts)) :
               added \in {OrderBuilder_addTopping(H, o, Head(ts))}})

BuildOrderChain(H, size, ts, notes) ==
  Only({Only({Only({Only({OrderBuilder_build(noted, r.order) :
    noted \in {OrderBuilder_setNotes(topped, r.order, notes)}}) :
    topped \in {AddToppings(sized, r.order, ts)}}) :
    sized \in {OrderBuilder_setSize(r.heap, r.order, size)}}) :
    r \in {OrderBuilder_reset(H)}})

\* The checked topping boxes, in document order.
ToppingChoices == {<<>>, <<"Olives">>, <<"Cheese">>, <<"Olives", "Cheese">>}
NoteInputs == {""} \cup Notes

(***************************************************************************)
(* SpecProto: clone() applied to built orders.  An order is built by the   *)
(* chain above from any inputs; then the caller clones it and pushes onto  *)
(* either side, in any order.                                              *)
(***************************************************************************)
MaxLength == 3     \* longest toppings array pushed onto

InitProto ==
  \E size \in Sizes, ts \in ToppingChoices, notes \in NoteInputs :
    LET b == OrderBuilder_reset(Heap(<<>>, <<>>, <<>>))   \* new OrderBuilder()
        built == BuildOrderChain(b.heap, size, ts, notes)
    IN \E G \in {Collect(built.heap, <<built.order, built.ret, NoRef>>)} :
       /\ orders = G.heap.orders
       /\ arrays = G.heap.arrays
       /\ sizeCalls = G.heap.calls
       /\ builderOrder = G.refs[1]
       /\ lastBuiltOrder = G.refs[2]
       /\ lastClone = NoRef
       /\ last = [op |-> "build"]
       /\ NothingLoaded

\* lastClone = clone(lastBuiltOrder)
CloneLast ==
  \E hasStructuredClone \in BOOLEAN :
    \E c \in {clone(TheHeap, lastBuiltOrder, hasStructuredClone)} :
       /\ SetHeap(c.heap, builderOrder, lastBuiltOrder, c.ref)
       /\ last' = [op |-> "clone"]
       /\ UNCHANGED <<configVars, pageVars>>

\* lastClone.toppings.push('Extra Cheese'); lastClone.price += 30
MutateClone ==
  /\ lastClone # NoRef
  /\ Len(arrays[orders[lastClone].toppings]) < MaxLength
  /\ SetFields(PushExtraCheese(TheHeap, lastClone))
  /\ last' = [op |-> "mutate clone"]
  /\ UNCHANGED <<configVars, pageVars>>

\* The same two statements on the source of the clone.
MutateSource ==
  /\ Len(arrays[orders[lastBuiltOrder].toppings]) < MaxLength
  /\ SetFields(PushExtraCheese(TheHeap, lastBuiltOrder))
  /\ last' = [op |-> "mutate source"]
  /\ UNCHANGED <<configVars, pageVars>>

NextProto ==
  \/ CloneLast
  \/ MutateClone
  \/ MutateSource

SpecProto == InitProto /\ [][NextProto]_vars

(***************************************************************************)
(* Singleton: AppConfig                                                    *)
(***************************************************************************)
INR == "INR"
USD == "USD"
DefaultTax == 5
DefaultDiscount == 10

\* A constructor without the _instance check: every `new` makes an object.
AppConfig_constructor_NoGuard(C, inst) ==
  LET this == FreshId(DOMAIN C)
  IN [configs |-> [i \in DOMAIN C \cup {this} |->
                     IF i = this
                     THEN [currency |-> INR, tax |-> DefaultTax, discount |-> DefaultDiscount]
                     ELSE C[i]],
      instance |-> this,
      ret |-> this]

\* new AppConfig(): returns AppConfig._instance when it is set (the object
\* `new` allocated is then unreachable and is not kept in the heap);
\* otherwise fills in the defaults, records `this` and returns it.
AppConfig_constructor(C, inst) ==
  IF inst # NoRef THEN [configs |-> C, instance |-> inst, ret |-> inst]
  ELSE LET this == FreshId(DOMAIN C)
       IN [configs |-> [i \in DOMAIN C \cup {this} |->
                          IF i = this
                          THEN [currency |-> INR, tax |-> DefaultTax,
                                discount |-> DefaultDiscount]
                          ELSE C[i]],
           instance |-> this,
           ret |-> this]

\* static getInstance()
AppConfig_getInstance(C, inst) ==
  IF inst = NoRef
  THEN LET n == AppConfig_constructor(C, inst)
       IN [configs |-> n.configs, instance |-> n.ret, ret |-> n.ret]
  ELSE [configs |-> C, instance |-> inst, ret |-> inst]

\* toggleCurrency with the ternary's branches both 'USD'.
AppConfig_toggleCurrency_ToUSD(C, this) ==
  [C EXCEPT ![this].currency = USD]

\* toggleCurrency(): this.currency = this.currency === 'INR' ? 'USD' : 'INR'
AppConfig_toggleCurrency(C, this) ==
  [C EXCEPT ![this].currency = IF @ = INR THEN USD ELSE INR]

(***************************************************************************)
(* JavaScript strings and numbers as the factories see them.  A string is  *)
(* the sequence of its pieces (characters, or a piece of a literal).       *)
(***************************************************************************)
Str(s) == [t |-> "string", s |-> s]
Num(n) == [t |-> "number", n |-> n]
JSundefined == [t |-> "undefined"]

Truthy(v) ==
  CASE v.t = "string" -> v.s # <<>>
    [] v.t = "number" -> v.n # 0
    [] OTHER -> FALSE

\* a || b
Or(a, b) == IF Truthy(a) THEN a ELSE b

\* obj.key of an object literal: undefined when the key is missing
Get(obj, key) == IF key \in DOMAIN obj THEN obj[key] ELSE JSundefined

DigitChar(d) == <<"0", "1", "2", "3", "4", "5", "6", "7", "8", "9">>[d + 1]

RECURSIVE Digits(_)
Digits(n) ==
  IF n < 10 THEN <<DigitChar(n)>>
  ELSE Digits(n \div 10) \o <<DigitChar(n % 10)>>

\* String(v), and `${v}` in a template literal
String(v) ==
  CASE v.t = "string" -> v.s
    [] v.t = "number" -> Digits(v.n)
    [] OTHER -> <<"undefined">>

\* s.slice(-k)
SliceLast(s, k) ==
  IF Len(s) <= k THEN s ELSE SubSeq(s, Len(s) - k + 1, Len(s))

\* s.slice(k)
SliceFrom(s, k) ==
  IF Len(s) <= k THEN <<>> ELSE SubSeq(s, k + 1, Len(s))

(***************************************************************************)
(* Factory Method: UserFactory                                             *)
(***************************************************************************)
Customer(name) ==
  [type |-> "Customer", name |-> name, permissions |-> <<"order">>]
DeliveryPartner(name) ==
  [type |-> "DeliveryPartner", name |-> name, permissions |-> <<"deliver">>]
Restaurant(name) ==
  [type |-> "Restaurant", name |-> name, permissions |-> <<"menu", "receive_orders">>]

Returned(v) == [ok |-> TRUE, value |-> v]
Thrown(msg) == [ok |-> FALSE, error |-> msg]

\* A switch whose default returns a Customer instead of throwing.
UserFactory_create_Default(type, name) ==
  CASE type = "DeliveryPartner" -> Returned(DeliveryPartner(Or(name, Str(<<"Anon Rider">>))))
    [] type = "Restaurant" -> Returned(Restaurant(Or(name, Str(<<"Anon Resto">>))))
    [] OTHER -> Returned(Customer(Or(name, Str(<<"Anon Cust">>))))

\* static create(type, name)
UserFactory_create(type, name) ==
  CASE type = "Customer" -> Returned(Customer(Or(name, Str(<<"Anon Cust">>))))
    [] type = "DeliveryPartner" -> Returned(DeliveryPartner(Or(name, Str(<<"Anon Rider">>))))
    [] type = "Restaurant" -> Returned(Restaurant(Or(name, Str(<<"Anon Resto">>))))
    [] OTHER -> Thrown("Unknown type")

(***************************************************************************)
(* Abstract Factory: PaymentFactory                                        *)
(***************************************************************************)
UPI(id) == [method |-> "UPI", id |-> id]
Wallet(walletId) == [method |-> "Wallet", walletId |-> walletId]
Card(cardNo) == [method |-> "Card", cardNo |-> cardNo]

UPI_pay(this, amount) ==
  <<"Paid ">> \o String(amount) \o <<" via UPI (">> \o String(this.id) \o <<")">>
Wallet_pay(this, amount) ==
  <<"Paid ">> \o String(amount) \o <<" via Wallet (">> \o String(this.walletId) \o <<")">>

\* pay with slice(4) for slice(-4).
Card_pay_SliceFrom(this, amount) ==
  <<"Paid ">> \o String(amount) \o <<" via Card (", "xxxx-">>
    \o SliceFrom(String(this.cardNo), 4) \o <<")">>

\* `Paid ${amount} via Card (xxxx-${String(this.cardNo).slice(-4)})`
Card_pay(this, amount) ==
  <<"Paid ">> \o String(amount) \o <<" via Card (", "xxxx-">>
    \o SliceLast(String(this.cardNo), 4) \o <<")">>

\* p.pay(amount), dispatched on the class of p
Pay(p, amount) ==
  CASE p.method = "UPI" -> UPI_pay(p, amount)
    [] p.method = "Wallet" -> Wallet_pay(p, amount)
    [] p.method = "Card" -> Card_pay(p, amount)

DefaultUpiId == Str(<<"u", "s", "e", "r", "@", "u", "p", "i">>)
DefaultWalletId == Str(<<"W", "A", "L", "L", "E", "T", "1", "2", "3">>)
DefaultCardNo ==
  Str(<<"4", "2", "4", "2", "4", "2", "4", "2", "4", "2", "4", "2", "4", "2", "4", "2">>)

\* static create(family, opts)
PaymentFactory_create(family, opts) ==
  CASE family = "UPI" -> Returned(UPI(Or(Get(opts, "id"), DefaultUpiId)))
    [] family = "Wallet" -> Returned(Wallet(Or(Get(opts, "walletId"), DefaultWalletId)))
    [] family = "Card" -> Returned(Card(Or(Get(opts, "cardNo"), DefaultCardNo)))
    [] OTHER -> Thrown("Unknown payment family")

(***************************************************************************)
(* SpecCreate: a caller uses AppConfig and the two factories directly,     *)
(* with any arguments, starting before any AppConfig exists.               *)
(***************************************************************************)
MaxRefs == 3       \* most references to AppConfig the caller keeps

TypeInputs == {"Customer", "DeliveryPartner", "Restaurant", "Alien"}
NameInputs == {JSundefined, Str(<<>>), Str(<<"Asha">>)}
FamilyInputs == {"UPI", "Wallet", "Card", "Bogus"}
OptKeys == {"id", "walletId", "cardNo", "cardNumber"}
OptValues ==
  {Str(<<>>), Num(0), Str(<<"1", "2", "3", "4", "5", "6", "7", "8">>), Num(98765)}
\* The option bags tried: empty, one key, or both spellings of the card key.
OptKeySets == {{}} \cup {{k} : k \in OptKeys} \cup {{"cardNo", "cardNumber"}}
OptsInputs == UNION {[K -> OptValues] : K \in OptKeySets}
DemoAmount == 199

InitCreate ==
  LET b == OrderBuilder_reset(Heap(<<>>, <<>>, <<>>))
  IN /\ orders = b.heap.orders
     /\ arrays = b.heap.arrays
     /\ sizeCalls = b.heap.calls
     /\ builderOrder = b.order
     /\ lastBuiltOrder = NoRef
     /\ lastClone = NoRef
     /\ NothingLoaded
     /\ last = [op |-> "load"]

\* r = AppConfig.getInstance()
GetInstance ==
  /\ Len(refs) < MaxRefs
  /\ LET g == AppConfig_getInstance(configs, AppConfig_instance)
     IN /\ configs' = g.configs
        /\ AppConfig_instance' = g.instance
        /\ refs' = Append(refs, [ref |-> g.ret, via |-> "getInstance"])
  /\ last' = [op |-> "getInstance"]
  /\ UNCHANGED <<builderVars, pageVars>>

\* r = new AppConfig()
NewAppConfig ==
  /\ Len(refs) < MaxRefs
  /\ LET n == AppConfig_constructor(configs, AppConfig_instance)
     IN /\ configs' = n.configs
        /\ AppConfig_instance' = n.instance
        /\ refs' = Append(refs, [ref |-> n.ret, via |-> "new"])
  /\ last' = [op |-> "new AppConfig"]
  /\ UNCHANGED <<builderVars, pageVars>>

\* r.toggleCurrency() on any reference kept
ToggleCurrency ==
  \E i \in DOMAIN refs :
    /\ configs' = AppConfig_toggleCurrency(configs, refs[i].ref)
    /\ last' = [op |-> "toggleCurrency", ref |-> i,
                was |-> configs[refs[i].ref].currency]
    /\ UNCHANGED <<AppConfig_instance, refs, builderVars, pageVars>>

\* UserFactory.create(type, name)
CreateUser ==
  \E type \in TypeInputs, name \in NameInputs :
    /\ last' = [op |-> "UserFactory.create", type |-> type, name |-> name,
                result |-> UserFactory_create(type, name)]
    /\ UNCHANGED <<configVars, builderVars, pageVars>>

\* p = PaymentFactory.create(family, opts); p.pay(199)
CreatePayment ==
  \E family \in FamilyInputs, opts \in OptsInputs :
    LET p == PaymentFactory_create(family, opts)
    IN /\ last' = [op |-> "PaymentFactory.create", family |-> family, opts |-> opts,
                   result |-> p,
                   receipt |-> IF p.ok THEN Pay(p.value, Num(DemoAmount)) ELSE <<>>]
       /\ UNCHANGED <<configVars, builderVars, pageVars>>

NextCreate ==
  \/ GetInstance
  \/ NewAppConfig
  \/ ToggleCurrency
  \/ CreateUser
  \/ CreatePayment

SpecCreate == InitCreate /\ [][NextCreate]_vars

(***************************************************************************)
(* The page.  InitDemo is the state once the script has run; each action   *)
(* is one click handler, run to its end.  The handlers of the order panels *)
(* and those of the other panels write to separate parts of the state;     *)
(* SpecDemoOrders and SpecDemoFactories explore the two groups.            *)
(***************************************************************************)
DemoSizes == {Medium, Large, ExtraLarge}
DemoNotes == {"no onion"}
RandomInputs == {10, 99}     \* Math.floor(Math.random()*90+10) lies in 10..99
EmptyOpts == <<>>            \* the {} the makePayment handler passes

Line(msg, data) == [msg |-> msg, data |-> data]

\* log(el, msg): the new line goes on top
Log(el, line) == log' = [log EXCEPT ![el] = line]

InitDemo ==
  LET g == AppConfig_getInstance(<<>>, NoRef)            \* const cfg = ...
      b == OrderBuilder_reset(Heap(<<>>, <<>>, <<>>))    \* new OrderBuilder()
  IN /\ configs = g.configs
     /\ AppConfig_instance = g.instance
     /\ cfg = g.ret
     /\ refs = <<>>
     /\ currencyDisplay = g.configs[g.ret].currency
     /\ log = [el \in LogElements |-> NoLine]
     /\ usersDiv = NoLine
     /\ orders = b.heap.orders
     /\ arrays = b.heap.arrays
     /\ sizeCalls = b.heap.calls
     /\ builderOrder = b.order
     /\ lastBuiltOrder = NoRef
     /\ lastClone = NoRef
     /\ last = [op |-> "load"]

\* #toggleCurrency
ClickToggleCurrency ==
  LET g == AppConfig_getInstance(configs, AppConfig_instance)
      c1 == g.ret
      toggled == AppConfig_toggleCurrency(g.configs, c1)
  IN /\ configs' = toggled
     /\ AppConfig_instance' = g.instance
     /\ currencyDisplay' = toggled[c1].currency
     /\ Log("singletonLog", Line("Toggled currency -> ", toggled[c1].currency))
     /\ last' = [op |-> "click toggleCurrency", thrown |-> "none"]
     /\ UNCHANGED <<refs, cfg, usersDiv, builderVars>>

\* #createConfig
ClickCreateConfig ==
  LET n == AppConfig_constructor(configs, AppConfig_instance)
      attempt == n.ret
      same == (attempt = cfg)
  IN /\ configs' = n.configs
     /\ AppConfig_instance' = n.instance
     /\ Log("singletonLog", Line("Created via 'new AppConfig()' -> same instance? ", same))
     /\ last' = [op |-> "click createConfig", thrown |-> "none"]
     /\ UNCHANGED <<refs, cfg, currencyDisplay, usersDiv, builderVars>>

\* .createUser: a throw ends the handler before the card is made
ClickCreateUser ==
  \E t \in TypeInputs, rnd \in RandomInputs :
    LET u == UserFactory_create(t, Str(<<t, " ">> \o Digits(rnd)))
    IN /\ last' = [op |-> "click createUser", tag |-> t, result |-> u,
                   thrown |-> IF u.ok THEN "none" ELSE u.error]
       /\ usersDiv' = IF u.ok THEN Line("userCard", u.value) ELSE usersDiv
       /\ UNCHANGED <<configVars, cfg, currencyDisplay, log, builderVars>>

\* #makePayment: a throw ends the handler before pay() and log()
ClickMakePayment ==
  \E family \in FamilyInputs :
    LET p == PaymentFactory_create(family, EmptyOpts)
    IN /\ last' = [op |-> "click makePayment", tag |-> family, result |-> p,
                   thrown |-> IF p.ok THEN "none" ELSE p.error]
       /\ IF p.ok
          THEN Log("paymentLog",
                   Line("Factory", [family |-> family,
                                    res |-> Pay(p.value, Num(DemoAmount))]))
          ELSE UNCHANGED log
       /\ UNCHANGED <<configVars, cfg, currencyDisplay, usersDiv, builderVars>>

\* #buildOrder
ClickBuildOrder ==
  \E size \in DemoSizes, notes \in DemoNotes, toppings \in ToppingChoices :
    \E b \in {BuildOrderChain(TheHeap, size, toppings, notes)} :
       /\ SetHeap(b.heap, b.order, b.ret, lastClone)
       /\ Log("orderPreview", Line("Order built: ", JSON_stringify(b.heap, b.ret)))
       /\ last' = [op |-> "click buildOrder", size |-> size, notes |-> notes,
                   toppings |-> toppings, thrown |-> "none"]
       /\ UNCHANGED <<configVars, cfg, currencyDisplay, usersDiv>>

\* #cloneLast
ClickCloneLast ==
  /\ IF lastBuiltOrder = NoRef
     THEN /\ Log("prototypeLog", Line("No last order to clone. Build one first.", <<>>))
          /\ UNCHANGED builderVars
     ELSE \E hasStructuredClone \in BOOLEAN :
            \E c \in {clone(TheHeap, lastBuiltOrder, hasStructuredClone)} :
               /\ Log("prototypeLog", Line("Cloned order: ", JSON_stringify(c.heap, c.ref)))
               /\ SetHeap(c.heap, builderOrder, lastBuiltOrder, c.ref)
  /\ last' = [op |-> "click cloneLast", thrown |-> "none"]
  /\ UNCHANGED <<configVars, cfg, currencyDisplay, usersDiv>>

\* #modifyClone
ClickModifyClone ==
  /\ IF lastClone = NoRef
     THEN /\ Log("prototypeLog",
                 Line("No clone to modify. Click \"Clone Last Order\" first.", <<>>))
          /\ UNCHANGED builderVars
     ELSE /\ Len(arrays[orders[lastClone].toppings]) < MaxLength
          /\ \E H \in {PushExtraCheese(TheHeap, lastClone)} :
                /\ SetFields(H)
                /\ Log("prototypeLog",
                       Line("Modified clone: ",
                            [clone |-> JSON_stringify(H, lastClone),
                             original |-> IF lastBuiltOrder = NoRef THEN <<>>
                                          ELSE JSON_stringify(H, lastBuiltOrder)]))
  /\ last' = [op |-> "click modifyClone", thrown |-> "none"]
  /\ UNCHANGED <<configVars, cfg, currencyDisplay, usersDiv>>

\* The Builder and Prototype panels: orders are built, cloned and modified.
NextDemoOrders ==
  \/ ClickBuildOrder
  \/ ClickCloneLast
  \/ ClickModifyClone

SpecDemoOrders == InitDemo /\ [][NextDemoOrders]_vars

\* The Singleton, Factory and Abstract Factory panels, with orders built in
\* between.
NextDemoFactories ==
  \/ ClickToggleCurrency
  \/ ClickCreateConfig
  \/ ClickCreateUser
  \/ ClickMakePayment
  \/ ClickBuildOrder

SpecDemoFactories == InitDemo /\ [][NextDemoFactories]_vars

(***************************************************************************)
(* Properties of the builder (Spec)                                        *)
(***************************************************************************)
EmptyOrder == [size |-> JSnull, toppings |-> <<>>, notes |-> "", price |-> 0]

\* The fixed base price of a size, as the specification states it.
BasePrice(size) ==
  IF size = JSnull THEN 0
  ELSE IF size = ExtraLarge THEN ExtraLargePrice
  ELSE IF size = Large THEN LargePrice
  ELSE DefaultPrice

PriceIsBasePlusToppings(o) ==
  orders[o].price = BasePrice(orders[o].size)
                      + ToppingPrice * Len(arrays[orders[o].toppings])

BuilderOps == {"reset", "setSize", "addTopping", "setNotes"}

\* C2: a snapshot build() returned never aliases the working order: no
\* builder call changes the snapshot held, build() itself leaves it as it
\* was and returns an object apart from the new working order, and changing
\* the snapshot leaves the working order, hence what is built next, alone.
C2_SnapshotsIndependent ==
  /\ [](lastBuiltOrder # NoRef =>
          /\ lastBuiltOrder # builderOrder
          /\ orders[lastBuiltOrder].toppings # orders[builderOrder].toppings
          /\ LET b == OrderBuilder_build(TheHeap, builderOrder)
             IN /\ Content(b.heap, lastBuiltOrder) = Content(TheHeap, lastBuiltOrder)
                /\ Content(b.heap, b.ret) = Content(TheHeap, builderOrder)
                /\ b.ret \notin {lastBuiltOrder, b.order}
                /\ b.heap.orders[b.ret].toppings \notin
                     {b.heap.orders[lastBuiltOrder].toppings,
                      b.heap.orders[b.order].toppings})
  /\ [][/\ (last'.op \in BuilderOps /\ lastBuiltOrder # NoRef) =>
             /\ lastBuiltOrder' # NoRef
             /\ Content(TheHeap, lastBuiltOrder)' = Content(TheHeap, lastBuiltOrder)
        /\ last'.op = "build" =>
             Content(TheHeap, lastBuiltOrder)' = Content(TheHeap, builderOrder)
        /\ last'.op = "mutate built" =>
             /\ Content(TheHeap, builderOrder)' = Content(TheHeap, builderOrder)
             /\ Content(TheHeap, lastBuiltOrder)' # Content(TheHeap, lastBuiltOrder)
       ]_vars

\* C2 witness: a snapshot with a topping is held while the builder has
\* gone on to a different order.
C2_Witness ==
  /\ lastBuiltOrder # NoRef
  /\ Len(arrays[orders[lastBuiltOrder].toppings]) > 0
  /\ last.op = "addTopping"
  /\ Content(TheHeap, builderOrder) # Content(TheHeap, lastBuiltOrder)

\* C4 as claimed: every order alive, working or built, has
\* price = base price of its size + 30 per topping.
C4_PriceIsBasePlusToppings ==
  \A o \in DOMAIN orders : PriceIsBasePlusToppings(o)

\* C4 as amended: price = base price of the size + 30 per topping on every
\* order that received at most one setSize call since it was started (0 for
\* no call); every further call added its own base price on top.
C4_PriceAfterSetSizeCalls ==
  \A o \in DOMAIN orders :
    LET k == sizeCalls[o]
        n == Len(arrays[orders[o].toppings])
        rest == orders[o].price - ToppingPrice * n
    IN /\ k = 0 => (orders[o].size = JSnull /\ rest = 0)
       /\ k = 1 => rest = BasePrice(orders[o].size)
       /\ k >= 1 =>
            /\ orders[o].size # JSnull
            /\ rest >= BasePrice(orders[o].size) + DefaultPrice * (k - 1)
            /\ rest <= BasePrice(orders[o].size) + ExtraLargePrice * (k - 1)

\* C4 witness: a built Large order with a topping added before the size
\* was set.
C4_Witness ==
  /\ lastBuiltOrder # NoRef
  /\ sizeCalls[lastBuiltOrder] = 1
  /\ orders[lastBuiltOrder].size = Large
  /\ arrays[orders[lastBuiltOrder].toppings] = <<"Olives">>
  /\ orders[lastBuiltOrder].price = 230

\* C5: setSize(s) sets size to s, adds 300 for 'Extra Large', 200 for
\* 'Large' and 120 for anything else to the price whatever it was, and
\* leaves toppings and notes alone.
C5_SetSizeAddsBasePrice ==
  [][last'.op = "setSize" =>
       LET before == Content(TheHeap, builderOrder)
           after == Content(TheHeap, builderOrder)'
           s == last'.arg
       IN /\ after.size = s
          /\ after.price = before.price
               + (IF s = "Extra Large" THEN 300 ELSE IF s = "Large" THEN 200 ELSE 120)
          /\ after.toppings = before.toppings
          /\ after.notes = before.notes
    ]_vars

\* C5 witness: a second setSize on the same order: Large then Extra Large
\* leaves size 'Extra Large' and price 500.
C5_Witness ==
  /\ last.op = "setSize"
  /\ sizeCalls[builderOrder] = 2
  /\ orders[builderOrder].size = ExtraLarge
  /\ orders[builderOrder].price = 500

\* C6: right after build() and right after reset() the working order is the
\* empty order, so the order built next carries nothing of the one before.
C6_BuildReturnsToIdle ==
  /\ [](last.op \in {"build", "reset"} =>
          /\ Content(TheHeap, builderOrder) = EmptyOrder
          /\ sizeCalls[builderOrder] = 0)
  /\ [][(last.op = "build" /\ last'.op = "build") =>
          Content(TheHeap, lastBuiltOrder)' = EmptyOrder]_vars

\* C6 witness: build() has just returned an order with size, topping and
\* notes.
C6_Witness ==
  /\ last.op = "build"
  /\ orders[lastBuiltOrder].size # JSnull
  /\ Len(arrays[orders[lastBuiltOrder].toppings]) > 0
  /\ orders[lastBuiltOrder].notes # ""

(***************************************************************************)
(* Properties of clone (SpecProto)                                         *)
(***************************************************************************)
\* C3: clone(snapshot) returns a record equal to the source, field by field
\* and topping by topping, in objects of its own; pushing onto the clone
\* changes the clone alone, and pushing onto the source leaves the clone.
C3_CloneIndependent ==
  /\ [](lastClone # NoRef =>
          /\ lastClone # lastBuiltOrder
          /\ orders[lastClone].toppings # orders[lastBuiltOrder].toppings)
  /\ [][/\ last'.op = "clone" =>
             /\ Content(TheHeap, lastClone)' = Content(TheHeap, lastBuiltOrder)
             /\ Content(TheHeap, lastBuiltOrder)' = Content(TheHeap, lastBuiltOrder)
        /\ last'.op = "mutate clone" =>
             /\ Content(TheHeap, lastBuiltOrder)' = Content(TheHeap, lastBuiltOrder)
             /\ Content(TheHeap, lastClone)' =
                  [Content(TheHeap, lastClone) EXCEPT
                     !.toppings = Append(@, "Extra Cheese"), !.price = @ + 30]
        /\ (last'.op = "mutate source" /\ lastClone # NoRef) =>
             /\ Content(TheHeap, lastClone)' = Content(TheHeap, lastClone)
             /\ Content(TheHeap, lastBuiltOrder)' # Content(TheHeap, lastBuiltOrder)
       ]_vars

\* C3 witness: a clone of an order with one topping that was pushed onto
\* twice, its source still as built.
C3_Witness ==
  /\ lastClone # NoRef
  /\ last.op = "mutate clone"
  /\ arrays[orders[lastBuiltOrder].toppings] = <<"Olives">>
  /\ arrays[orders[lastClone].toppings] = <<"Olives", "Extra Cheese", "Extra Cheese">>

(***************************************************************************)
(* Properties of AppConfig and the factories (SpecCreate)                  *)
(***************************************************************************)
\* C1: every getInstance() and every new AppConfig(), in any order, gave
\* the same object: one AppConfig exists at most, and a toggle made through
\* one reference shows through all of them.
C1_SingleInstance ==
  /\ [](/\ Cardinality(DOMAIN configs) <= 1
        /\ \A i \in DOMAIN refs :
             /\ refs[i].ref = AppConfig_instance
             /\ refs[i].ref \in DOMAIN configs)
  /\ [][last'.op = "toggleCurrency" =>
          \A j \in DOMAIN refs :
            /\ configs'[refs[j].ref].currency # configs[refs[j].ref].currency
            /\ configs'[refs[j].ref].currency = configs'[refs[last'.ref].ref].currency
       ]_vars

\* C1 witness: the constructor ran before the first getInstance(), a third
\* reference came from the constructor again, and the currency was toggled
\* through the second.
C1_Witness ==
  /\ Len(refs) = 3
  /\ refs[1].via = "new"
  /\ refs[2].via = "getInstance"
  /\ refs[3].via = "new"
  /\ last.op = "toggleCurrency"
  /\ last.ref = 2
  /\ configs[refs[3].ref].currency = USD

\* C9: toggleCurrency changes the currency every time, keeps it INR or USD,
\* undoes itself when applied twice, and leaves tax and discount alone.
C9_ToggleInvolution ==
  /\ [](\A o \in DOMAIN configs : configs[o].currency \in {"INR", "USD"})
  /\ [][last'.op = "toggleCurrency" =>
          LET o == refs[last'.ref].ref
          IN /\ configs'[o].currency # configs[o].currency
             /\ configs'[o].tax = configs[o].tax
             /\ configs'[o].discount = configs[o].discount
             /\ last.op = "toggleCurrency" => configs'[o].currency = last.was
       ]_vars

\* C9 witness: a second toggle in a row has brought the currency back to INR.
C9_Witness ==
  /\ last.op = "toggleCurrency"
  /\ last.was = "USD"
  /\ configs[AppConfig_instance].currency = "INR"
  /\ configs[AppConfig_instance].tax = 5
  /\ configs[AppConfig_instance].discount = 10

\* Whether the receipt shows 'xxxx-' followed by exactly the pieces in tail.
ShowsMasked(receipt, tail) ==
  \E i \in 1..Len(receipt) :
    /\ receipt[i] = "xxxx-"
    /\ SubSeq(receipt, i + 1, Len(receipt) - 1) = tail

Supplied(key) == key \in DOMAIN last.opts

\* C8 as claimed: Card takes the number under the key cardNumber and the
\* default only when that key is missing, and the receipt shows xxxx- and the
\* last four characters of the number supplied; UPI and Wallet take id and
\* walletId, with their defaults when missing.
C8_CardNumberKey ==
  (last.op = "PaymentFactory.create" /\ last.result.ok) =>
    /\ last.family = "Card" =>
         /\ ~Supplied("cardNumber") => last.result.value.cardNo = DefaultCardNo
         /\ Supplied("cardNumber") =>
              ShowsMasked(last.receipt, SliceLast(String(last.opts["cardNumber"]), 4))
    /\ (last.family = "UPI" /\ ~Supplied("id")) => last.result.value.id = DefaultUpiId
    /\ (last.family = "Wallet" /\ ~Supplied("walletId")) =>
         last.result.value.walletId = DefaultWalletId

Usable(key) == Supplied(key) /\ Truthy(last.opts[key])

\* C8 as amended: the key read is cardNo (a cardNumber key is ignored); the
\* default is used when cardNo is missing or holds '' or 0; otherwise the
\* receipt shows xxxx- and the last four characters of the string form of
\* the number supplied.  UPI (id) and Wallet (walletId) alike: the value
\* supplied when it is not '' or 0, the default otherwise.
C8_CardNoKey ==
  (last.op = "PaymentFactory.create" /\ last.result.ok) =>
    /\ last.family = "Card" =>
         /\ ~Usable("cardNo") =>
              /\ last.result.value.cardNo = DefaultCardNo
              /\ ShowsMasked(last.receipt, <<"4", "2", "4", "2">>)
         /\ Usable("cardNo") =>
              /\ last.result.value.cardNo = last.opts["cardNo"]
              /\ ShowsMasked(last.receipt, SliceLast(String(last.opts["cardNo"]), 4))
    /\ last.family = "UPI" =>
         last.result.value.id =
           IF Usable("id") THEN last.opts["id"] ELSE DefaultUpiId
    /\ last.family = "Wallet" =>
         last.result.value.walletId =
           IF Usable("walletId") THEN last.opts["walletId"] ELSE DefaultWalletId

\* C8 witness: a Card made from the number 98765 under cardNo, with another
\* number under cardNumber, shows xxxx-8765.
C8_Witness ==
  /\ last.op = "PaymentFactory.create"
  /\ last.family = "Card"
  /\ Supplied("cardNo") /\ last.opts["cardNo"] = Num(98765)
  /\ Supplied("cardNumber") /\ last.opts["cardNumber"] # Num(98765)
  /\ ShowsMasked(last.receipt, <<"8", "7", "6", "5">>)

(***************************************************************************)
(* Properties of the page (SpecDemoOrders, SpecDemoFactories)              *)
(***************************************************************************)
KnownTypes == {"Customer", "DeliveryPartner", "Restaurant"}
KnownFamilies == {"UPI", "Wallet", "Card"}

\* What a handler that throws at once leaves as it was: everything shown,
\* the config and the builder.
NothingDone == UNCHANGED <<usersDiv, log, currencyDisplay, cfg, configVars, builderVars>>

\* C7: create with a tag outside the known set throws and makes nothing,
\* create with a known tag never throws and returns a record with that tag;
\* on the page, a click with an unknown tag adds no card, writes no payment
\* line and leaves config and builder as they were.
C7_UnknownTagsRejected ==
  /\ [](/\ \A t \in TypeInputs, n \in NameInputs :
             LET u == UserFactory_create(t, n)
             IN IF t \in KnownTypes THEN u.ok /\ u.value.type = t
                ELSE ~u.ok /\ DOMAIN u = {"ok", "error"}
        /\ \A f \in FamilyInputs, o \in OptsInputs :
             LET p == PaymentFactory_create(f, o)
             IN IF f \in KnownFamilies THEN p.ok /\ p.value.method = f
                ELSE ~p.ok /\ DOMAIN p = {"ok", "error"})
  /\ [][/\ last'.op = "click createUser" =>
             IF last'.tag \in KnownTypes
             THEN /\ last'.thrown = "none"
                  /\ usersDiv'.msg = "userCard"
                  /\ usersDiv'.data.type = last'.tag
             ELSE /\ last'.thrown = "Unknown type"
                  /\ NothingDone
        /\ last'.op = "click makePayment" =>
             IF last'.tag \in KnownFamilies
             THEN /\ last'.thrown = "none"
                  /\ last'.result.value.method = last'.tag
                  /\ log'["paymentLog"].data.family = last'.tag
             ELSE /\ last'.thrown = "Unknown payment family"
                  /\ NothingDone
       ]_vars

\* C7 witness: with a card and a payment line shown, the currency toggled
\* and an order built, a click with the tag 'Alien' has thrown.
C7_Witness ==
  /\ last.op = "click createUser"
  /\ last.tag = "Alien"
  /\ last.thrown = "Unknown type"
  /\ usersDiv.msg = "userCard"
  /\ log["paymentLog"].msg = "Factory"
  /\ configs[cfg].currency = "USD"
  /\ lastBuiltOrder # NoRef

HeldOrders == {lastBuiltOrder, lastClone} \ {NoRef}

SameOrderAfter(o) ==
  IF o = NoRef THEN o' = NoRef
  ELSE o' # NoRef /\ Content(TheHeap, o)' = Content(TheHeap, o)

\* C10: on the page every order held, built or cloned, has
\* price = base price of its size + 30 per topping; the built order had
\* exactly one setSize call; cloneLast and modifyClone leave lastBuiltOrder
\* alone and only log when there is nothing to clone or modify; buildOrder
\* replaces lastBuiltOrder and leaves window.lastClone alone.
C10_DemoOrdersPriced ==
  /\ [](/\ \A o \in HeldOrders : PriceIsBasePlusToppings(o) /\ sizeCalls[o] = 1
        /\ Content(TheHeap, builderOrder) = EmptyOrder)
  /\ [][/\ last'.op \in {"click cloneLast", "click modifyClone"} =>
             SameOrderAfter(lastBuiltOrder)
        /\ (last'.op = "click cloneLast" /\ lastBuiltOrder = NoRef) =>
             /\ UNCHANGED <<builderVars, configVars, cfg, currencyDisplay, usersDiv>>
             /\ \A el \in LogElements \ {"prototypeLog"} : log'[el] = log[el]
             /\ log'["prototypeLog"].msg = "No last order to clone. Build one first."
        /\ (last'.op = "click modifyClone" /\ lastClone = NoRef) =>
             /\ UNCHANGED <<builderVars, configVars, cfg, currencyDisplay, usersDiv>>
             /\ \A el \in LogElements \ {"prototypeLog"} : log'[el] = log[el]
             /\ log'["prototypeLog"].msg =
                  "No clone to modify. Click \"Clone Last Order\" first."
        /\ last'.op = "click buildOrder" =>
             /\ SameOrderAfter(lastClone)
             /\ Content(TheHeap, lastBuiltOrder)' =
                  [size |-> last'.size, toppings |-> last'.toppings,
                   notes |-> last'.notes,
                   price |-> BasePrice(last'.size) + 30 * Len(last'.toppings)]
       ]_vars

\* C10 witness: a clone of a Large order with one topping was modified
\* twice, and then an Extra Large order with two toppings was built.
C10_Witness ==
  /\ last.op = "click buildOrder"
  /\ lastClone # NoRef
  /\ Content(TheHeap, lastClone) =
       [size |-> "Large", toppings |-> <<"Olives", "Extra Cheese", "Extra Cheese">>,
        notes |-> "no onion", price |-> 290]
  /\ Content(TheHeap, lastBuiltOrder) =
       [size |-> "Extra Large", toppings |-> <<"Olives", "Cheese">>,
        notes |-> "no onion", price |-> 360]

====
